---- MODULE Spec2Model ----
(***************************************************************************)
(* A model of the IDX decoder of src/src/lib.rs: the element types and     *)
(* their big-endian decoding, IDXDecoder::new, IDXDecoder::dimensions and  *)
(* the two Iterator implementations (one and three dimensions) over a      *)
(* finite byte stream.                                                     *)
(***************************************************************************)
EXTENDS Integers, Sequences, FiniteSets, TLC

VARIABLES
    T,           \* type parameter T of IDXDecoder<R, T, D>: the element type
    D,           \* type parameter D of IDXDecoder<R, T, D>: D::dim()
    usize_bits,  \* width of usize on the platform the crate is built for
    data,        \* the bytes the reader R yields, in order
    pos,         \* number of bytes the reader has consumed
    pc,          \* "start" before new(), "ok" after Ok(decoder), "err" after Err(e)
    error,       \* the IDXError new() returned, <<>> when none
    dimensions,  \* the field IDXDecoder::dimensions, <<>> while no decoder exists
    out,         \* the values the calls of next() returned so far, in call order
    seen,        \* the value dimensions() returned since new() or the last call of
                 \* next(), <<>> when it was not called since
    hint,        \* the value size_hint() returned since new() or the last call of
                 \* next(), <<>> when it was not called since
    shape0       \* the dimension sizes written into the stream's header

vars == <<T, D, usize_bits, data, pos, pc, error, dimensions, out, seen, hint, shape0>>

----------------------------------------------------------------------------
(* Bounds of the model. *)

\* largest item count written into a header
MaxCount == 2
\* largest number of payload bytes that follow the dimension sizes
MaxPayload == 8
\* number of next() calls made on one decoder
MaxCalls == 4

----------------------------------------------------------------------------
(* Option<T>: None is the empty sequence, Some(v) the one-element sequence. *)

None == <<>>

Some(v) == <<v>>

Min(a, b) == IF a <= b THEN a ELSE b

----------------------------------------------------------------------------
(* types::{U8, I8, I16, I32, F32, F64} *)

Types == {"U8", "I8", "I16", "I32", "F32", "F64"}

\* Type::VALUE, the tag in header byte 2
VALUE(t) ==
    CASE t = "U8"  -> 8
      [] t = "I8"  -> 9
      [] t = "I16" -> 11
      [] t = "I32" -> 12
      [] t = "F32" -> 13
      [] t = "F64" -> 14

\* size_of::<T::TypeValue>()
size_of(t) ==
    CASE t = "U8"  -> 1
      [] t = "I8"  -> 1
      [] t = "I16" -> 2
      [] t = "I32" -> 4
      [] t = "F32" -> 4
      [] t = "F64" -> 8

\* 256^k
Pow256(k) == IF k = 0 THEN 1 ELSE IF k = 1 THEN 256 ELSE IF k = 2 THEN 65536 ELSE 16777216

\* uN::from_le_bytes: the first byte is the least significant
unsigned_from_le_bytes(buf) ==
    LET n == Len(buf)
        RECURSIVE sum(_)
        sum(i) == IF i > n THEN 0 ELSE buf[i] * Pow256(i - 1) + sum(i + 1)
    IN  sum(1)

\* uN::from_be_bytes for a buffer of up to 4 bytes: the first byte is the most
\* significant
unsigned_from_be_bytes(buf) ==
    LET n == Len(buf)
        RECURSIVE sum(_)
        sum(i) == IF i > n THEN 0 ELSE buf[i] * Pow256(n - i) + sum(i + 1)
    IN  sum(1)

\* iN::from_le_bytes: the sign bit is the top bit of the last byte
signed_from_le_bytes(buf) ==
    LET n == Len(buf)
        top == IF buf[n] >= 128 THEN buf[n] - 256 ELSE buf[n]
    IN  top * Pow256(n - 1) + unsigned_from_le_bytes(SubSeq(buf, 1, n - 1))

\* iN::from_be_bytes: the two's complement reading of the same bits, the sign
\* bit being the top bit of the first byte
signed_from_be_bytes(buf) ==
    LET n == Len(buf)
        top == IF buf[1] >= 128 THEN buf[1] - 256 ELSE buf[1]
    IN  top * Pow256(n - 1) + unsigned_from_be_bytes(Tail(buf))

\* fN::from_bits(uN::from_be_bytes(buf)): a float is the bit pattern of the
\* unsigned integer of the same width; the pattern is kept as its base-65536
\* digits, most significant first
float_from_be_bytes(buf) ==
    [bits |-> [i \in 1..(Len(buf) \div 2) |->
                  unsigned_from_be_bytes(SubSeq(buf, 2 * i - 1, 2 * i))]]

\* the value part of BEReadable::read_self for T::TypeValue, given the buffer
\* read_exact filled
from_be_bytes(t, buf) ==
    CASE t = "U8"          -> unsigned_from_be_bytes(buf)
      [] t \in {"I8", "I16", "I32"} -> signed_from_be_bytes(buf)
      [] t \in {"F32", "F64"}       -> float_from_be_bytes(buf)

----------------------------------------------------------------------------
(* The reader: std::io::Read::read_exact over the remaining bytes. *)

\* read_exact(&mut buf) with buf.len() = n succeeds at position p
ReadOk(p, n) == p + n <= Len(data)

\* the buffer a successful read_exact of n bytes at position p fills
Buf(p, n) == SubSeq(data, p + 1, p + n)

\* the positions a failed read_exact at position p may leave the reader at:
\* how many of the remaining bytes it consumed is unspecified
ShortReadPos(p) == p..Len(data)

----------------------------------------------------------------------------
(* The streams: a 4-byte header, the dimension sizes as big-endian u32 and a
   payload, or a prefix that ends inside the header or the sizes. *)

\* u32::to_be_bytes
to_be_bytes(n) ==
    <<(n \div 16777216) % 256, (n \div 65536) % 256, (n \div 256) % 256, n % 256>>

RECURSIVE DimBytes(_)
DimBytes(s) == IF s = <<>> THEN <<>> ELSE to_be_bytes(Head(s)) \o DimBytes(Tail(s))

\* sub-dimension sizes: 65536 fits no 16-bit usize, and 65536 * 65536 = 2^32
SubDims == {0, 1, 2, 65536}

\* item counts: 65536 fits no 16-bit usize
Counts == 0..MaxCount \cup {65536}

Shapes(d) ==
    IF d = 1 THEN {<<c>> : c \in Counts}
    ELSE {<<c, d1, d2>> : c \in Counts, d1 \in SubDims, d2 \in SubDims}

\* first bytes of the payloads: 254, 255, 0, 1, ... and 1, 2, 3, ...
PayloadSeeds == {254, 1}

Payloads == {[i \in 1..n |-> (s + i - 1) % 256] : n \in 0..MaxPayload, s \in PayloadSeeds}

\* the header new() accepts for element type t and d dimensions
ValidHeader(t, d) == <<0, 0, VALUE(t), d>>

Headers(t) ==
    {<<b0, b1, b2, b3>> : b0 \in {0, 1}, b1 \in {0, 1},
                          b2 \in {VALUE(t), 8, 13}, b3 \in {1, 3}}

\* the prefixes of a stream that end inside the header or the dimension sizes
Truncated(h, s) == {SubSeq(h \o DimBytes(s), 1, n) : n \in 0..(4 + 4 * Len(s) - 1)}

\* a payload of one whole row of 65536 one-byte elements, for the stream of 2
\* rows of 65536 x 1 elements: the one stream that holds a row longer than a
\* 16-bit usize counts
LongPayloads(h, s) ==
    IF h[3] \in {8, 9} /\ s = <<2, 65536, 1>>
    THEN {[i \in 1..65536 |-> i % 256]}
    ELSE {}

\* the streams with the header new() accepts
ValidStreams(h, s) ==
    {h \o DimBytes(s) \o p : p \in Payloads \cup LongPayloads(h, s)} \cup Truncated(h, s)

\* the streams with a header new() rejects
InvalidStreams(h, s) ==
    {h \o DimBytes(s) \o p : p \in {q \in Payloads : Len(q) \in {0, MaxPayload}}}
    \cup Truncated(h, s)

Init ==
    /\ T \in Types
    /\ D \in {1, 3}
    /\ usize_bits \in {16, 32, 64}
    /\ \E h \in Headers(T) :
          IF h = ValidHeader(T, D)
          THEN /\ shape0 \in Shapes(D)
               /\ data \in ValidStreams(h, shape0)
          ELSE /\ shape0 \in {s \in Shapes(D) : \A i \in 1..D : s[i] = 2}
               /\ data \in InvalidStreams(h, shape0)
    /\ pos = 0
    /\ pc = "start"
    /\ error = <<>>
    /\ dimensions = <<>>
    /\ out = <<>>
    /\ seen = <<>>
    /\ hint = <<>>

----------------------------------------------------------------------------
(* IDXDecoder::new *)

\* HeaderError with the element type checked before the magic
HeaderError_TypeFirst(buf, t, d) ==
    IF buf[3] # VALUE(t) THEN <<"WrongType", VALUE(t), buf[3]>>
    ELSE IF buf[1] # 0 \/ buf[2] # 0 THEN <<"WrongMagic">>
    ELSE IF buf[4] # d THEN <<"WrongDimensions", d, buf[4]>>
    ELSE <<>>

\* HeaderError with the arguments of WrongType in the other order
HeaderError_SwapArgs(buf, t, d) ==
    IF buf[1] # 0 \/ buf[2] # 0 THEN <<"WrongMagic">>
    ELSE IF buf[3] # VALUE(t) THEN <<"WrongType", buf[3], VALUE(t)>>
    ELSE IF buf[4] # d THEN <<"WrongDimensions", d, buf[4]>>
    ELSE <<>>

\* HeaderError without the check of the dimensionality
HeaderError_NoDimCheck(buf, t, d) ==
    IF buf[1] # 0 \/ buf[2] # 0 THEN <<"WrongMagic">>
    ELSE IF buf[3] # VALUE(t) THEN <<"WrongType", VALUE(t), buf[3]>>
    ELSE <<>>

\* the checks of the 4 header bytes, in the order of the code: the error of the
\* first check that fails, <<>> when all pass
HeaderError(buf, t, d) ==
    IF buf[1] # 0 \/ buf[2] # 0 THEN <<"WrongMagic">>
    ELSE IF buf[3] # VALUE(t) THEN <<"WrongType", VALUE(t), buf[3]>>
    ELSE IF buf[4] # d THEN <<"WrongDimensions", d, buf[4]>>
    ELSE <<>>

\* the dimension sizes the loop over dimensions.iter_mut() reads, the i-th from
\* the 4 bytes at 4 + 4 * (i - 1)
ReadDimensions(d) == [i \in 1..d |-> unsigned_from_be_bytes(Buf(4 * i, 4))]

\* new() that leaves the sizes it could not read at zero and returns Ok
New_PartialShape ==
    /\ pc = "start"
    /\ IF ~ReadOk(0, 4)
       THEN /\ pc' = "err"
            /\ error' = <<"IOError">>
            /\ pos' \in ShortReadPos(0)
            /\ UNCHANGED dimensions
       ELSE IF HeaderError(Buf(0, 4), T, D) # <<>>
       THEN /\ pc' = "err"
            /\ error' = HeaderError(Buf(0, 4), T, D)
            /\ pos' = 4
            /\ UNCHANGED dimensions
       ELSE /\ pc' = "ok"
            /\ dimensions' = [i \in 1..D |-> IF ReadOk(4 * i, 4)
                                             THEN unsigned_from_be_bytes(Buf(4 * i, 4))
                                             ELSE 0]
            /\ pos' = Min(4 + 4 * D, Len(data))
            /\ UNCHANGED error
    /\ UNCHANGED <<T, D, usize_bits, data, out, seen, hint, shape0>>

New ==
    /\ pc = "start"
    /\ IF ~ReadOk(0, 4)
       THEN /\ pc' = "err"
            /\ error' = <<"IOError">>
            /\ pos' \in ShortReadPos(0)
            /\ UNCHANGED dimensions
       ELSE IF HeaderError(Buf(0, 4), T, D) # <<>>
       THEN /\ pc' = "err"
            /\ error' = HeaderError(Buf(0, 4), T, D)
            /\ pos' = 4
            /\ UNCHANGED dimensions
       ELSE IF ~ReadOk(4, 4 * D)
       THEN \* the first (Len(data) - 4) \div 4 sizes are read, the next fails
            /\ pc' = "err"
            /\ error' = <<"IOError">>
            /\ pos' \in ShortReadPos(4 + 4 * ((Len(data) - 4) \div 4))
            /\ UNCHANGED dimensions
       ELSE /\ pc' = "ok"
            /\ dimensions' = ReadDimensions(D)
            /\ pos' = 4 + 4 * D
            /\ UNCHANGED error
    /\ UNCHANGED <<T, D, usize_bits, data, out, seen, hint, shape0>>

(* IDXDecoder::dimensions *)
Dimensions ==
    /\ pc = "ok"
    /\ seen' = dimensions
    /\ UNCHANGED <<T, D, usize_bits, data, pos, pc, error, dimensions, out, hint, shape0>>

----------------------------------------------------------------------------
(* impl Iterator for IDXDecoder<R, T, na::U1> *)

\* read_self that ignores the result of read_exact and decodes the zeroed buffer
read_self_ZeroFill(t, p) ==
    IF ReadOk(p, size_of(t)) THEN Some(from_be_bytes(t, Buf(p, size_of(t))))
    ELSE Some(from_be_bytes(t, [i \in 1..size_of(t) |-> 0]))

\* BEReadable::read_self at position p: Some(value) when size_of bytes remain,
\* None when read_exact fails
read_self(t, p) ==
    IF ReadOk(p, size_of(t)) THEN Some(from_be_bytes(t, Buf(p, size_of(t)))) ELSE None

\* next() of the 1-dimensional decoder that reads an element before it looks
\* at dimensions[0]
Next1_ReadFirst ==
    /\ pc = "ok"
    /\ D = 1
    /\ Len(out) < MaxCalls
    /\ IF ReadOk(pos, size_of(T))
       THEN pos' = pos + size_of(T)
       ELSE pos' \in ShortReadPos(pos)
    /\ IF dimensions[1] > 0
       THEN /\ dimensions' = [dimensions EXCEPT ![1] = @ - 1]
            /\ out' = Append(out, read_self(T, pos))
       ELSE /\ out' = Append(out, None)
            /\ UNCHANGED dimensions
    /\ seen' = <<>>
    /\ hint' = <<>>
    /\ UNCHANGED <<T, D, usize_bits, data, pc, error, shape0>>

\* next() of the 1-dimensional decoder without the decrement of dimensions[0]
Next1_NoDecrement ==
    /\ pc = "ok"
    /\ D = 1
    /\ Len(out) < MaxCalls
    /\ IF dimensions[1] > 0
       THEN /\ out' = Append(out, read_self(T, pos))
            /\ IF ReadOk(pos, size_of(T))
               THEN pos' = pos + size_of(T)
               ELSE pos' \in ShortReadPos(pos)
            /\ UNCHANGED dimensions
       ELSE /\ out' = Append(out, None)
            /\ UNCHANGED <<dimensions, pos>>
    /\ seen' = <<>>
    /\ hint' = <<>>
    /\ UNCHANGED <<T, D, usize_bits, data, pc, error, shape0>>

Next1 ==
    /\ pc = "ok"
    /\ D = 1
    /\ Len(out) < MaxCalls
    /\ IF dimensions[1] > 0
       THEN /\ dimensions' = [dimensions EXCEPT ![1] = @ - 1]
            /\ out' = Append(out, read_self(T, pos))
            /\ IF ReadOk(pos, size_of(T))
               THEN pos' = pos + size_of(T)
               ELSE pos' \in ShortReadPos(pos)
       ELSE /\ out' = Append(out, None)
            /\ UNCHANGED <<dimensions, pos>>
    /\ seen' = <<>>
    /\ hint' = <<>>
    /\ UNCHANGED <<T, D, usize_bits, data, pc, error, shape0>>

----------------------------------------------------------------------------
(* impl Iterator for IDXDecoder<R, T, na::U3> *)

\* the largest integer the model computes with
MaxInt == 2147483647

\* as_usize as the cast n as usize: the low bits of n, never None
as_usize_Truncating(n, w) == IF w >= 32 THEN Some(n) ELSE Some(n % 65536)

\* the closure as_usize: n.try_into().ok() for a u32 n below 2^31
as_usize(n, w) == IF w >= 32 \/ n < 65536 THEN Some(n) ELSE None

\* (2^32 - 1) \div a for 2 <= a < 2^31
MaxU32Div(a) ==
    IF a > 1073741824
    THEN (IF a <= 1431655765 THEN 3 ELSE 2)
    ELSE 2 * (MaxInt \div a) + ((2 * (MaxInt % a) + 1) \div a)

\* a * b <= usize::MAX for a usize of w bits, a and b below 2^31
MulFits(a, b, w) ==
    CASE w = 16 -> a = 0 \/ b <= 65535 \div a
      [] w = 32 -> a <= 1 \/ b <= MaxU32Div(a)
      [] w = 64 -> TRUE

\* usize::wrapping_mul for the widths whose products the model computes: the
\* product modulo 2^w
wrapping_mul(a, b, w) ==
    IF w = 16 THEN Some(((a % 65536) * (b % 65536)) % 65536)
    ELSE IF a >= 65536 /\ b >= 65536 /\ a % 65536 = 0 /\ b % 65536 = 0 THEN Some(0)
    ELSE IF a # 0 /\ b > MaxInt \div a THEN Some(MaxInt)
    ELSE Some(a * b)

\* checked_mul over non-zero lengths only: a zero product is None as well
checked_mul_NonZero(a, b, w) ==
    IF a = 0 \/ b = 0 \/ ~MulFits(a, b, w) THEN None
    ELSE IF b > MaxInt \div a THEN Some(MaxInt)
    ELSE Some(a * b)

\* usize::checked_mul: a product above MaxInt, which only a 64-bit usize holds,
\* is kept as MaxInt; it is the length of a vector no stream of the model fills
checked_mul(a, b, w) ==
    IF ~MulFits(a, b, w) THEN None
    ELSE IF a # 0 /\ b > MaxInt \div a THEN Some(MaxInt)
    ELSE Some(a * b)

\* len: as_usize(dimensions[1])?.checked_mul(as_usize(dimensions[2])?)?
RowLen(d1, d2, w) ==
    IF as_usize(d1, w) = None \/ as_usize(d2, w) = None THEN None
    ELSE checked_mul(as_usize(d1, w)[1], as_usize(d2, w)[1], w)

\* number of whole elements of type t the stream holds from position p on
Avail(t, p) == (Len(data) - p) \div size_of(t)

\* ReadRow filling the vector from its last item to its first
ReadRow_Reversed(t, p, len) ==
    [i \in 1..len |-> from_be_bytes(t, Buf(p + (len - i) * size_of(t), size_of(t)))]

\* the items the loop over items.iter_mut() reads from position p on
ReadRow(t, p, len) == [i \in 1..len |-> from_be_bytes(t, Buf(p + (i - 1) * size_of(t), size_of(t)))]

\* next() of the 3-dimensional decoder that lowers dimensions[0] only when it
\* returns a row
Next3_DecrementOnSuccess ==
    /\ pc = "ok"
    /\ D = 3
    /\ Len(out) < MaxCalls
    /\ IF dimensions[1] > 0
       THEN LET len == RowLen(dimensions[2], dimensions[3], usize_bits)
            IN  IF len = None
                THEN /\ out' = Append(out, None)
                     /\ UNCHANGED <<dimensions, pos, pc>>
                ELSE IF len[1] <= Avail(T, pos)
                THEN /\ out' = Append(out, Some(ReadRow(T, pos, len[1])))
                     /\ pos' = pos + len[1] * size_of(T)
                     /\ dimensions' = [dimensions EXCEPT ![1] = @ - 1]
                     /\ UNCHANGED pc
                ELSE \/ /\ out' = Append(out, None)
                        /\ pos' \in ShortReadPos(pos + Avail(T, pos) * size_of(T))
                        /\ UNCHANGED <<dimensions, pc>>
                     \/ /\ len[1] = MaxInt
                        /\ pc' = "abort"
                        /\ UNCHANGED <<dimensions, out, pos>>
       ELSE /\ out' = Append(out, None)
            /\ UNCHANGED <<dimensions, pos, pc>>
    /\ seen' = <<>>
    /\ hint' = <<>>
    /\ UNCHANGED <<T, D, usize_bits, data, error, shape0>>

\* next() of the 3-dimensional decoder that returns the elements it could read
\* when the stream ends inside a row
Next3_PartialRow ==
    /\ pc = "ok"
    /\ D = 3
    /\ Len(out) < MaxCalls
    /\ IF dimensions[1] > 0
       THEN /\ dimensions' = [dimensions EXCEPT ![1] = @ - 1]
            /\ LET len == RowLen(dimensions[2], dimensions[3], usize_bits)
               IN  IF len = None
                   THEN /\ out' = Append(out, None)
                        /\ UNCHANGED <<pos, pc>>
                   ELSE IF len[1] <= Avail(T, pos)
                   THEN /\ out' = Append(out, Some(ReadRow(T, pos, len[1])))
                        /\ pos' = pos + len[1] * size_of(T)
                        /\ UNCHANGED pc
                   ELSE \/ /\ out' = Append(out, Some(ReadRow(T, pos, Avail(T, pos))))
                           /\ pos' \in ShortReadPos(pos + Avail(T, pos) * size_of(T))
                           /\ UNCHANGED pc
                        \/ /\ len[1] = MaxInt
                           /\ pc' = "abort"
                           /\ UNCHANGED <<out, pos>>
       ELSE /\ out' = Append(out, None)
            /\ UNCHANGED <<dimensions, pos, pc>>
    /\ seen' = <<>>
    /\ hint' = <<>>
    /\ UNCHANGED <<T, D, usize_bits, data, error, shape0>>

\* next() of the 3-dimensional decoder without the decrement of dimensions[0]
Next3_NoDecrement ==
    /\ pc = "ok"
    /\ D = 3
    /\ Len(out) < MaxCalls
    /\ IF dimensions[1] > 0
       THEN /\ UNCHANGED dimensions
            /\ LET len == RowLen(dimensions[2], dimensions[3], usize_bits)
               IN  IF len = None
                   THEN /\ out' = Append(out, None)
                        /\ UNCHANGED <<pos, pc>>
                   ELSE IF len[1] <= Avail(T, pos)
                   THEN /\ out' = Append(out, Some(ReadRow(T, pos, len[1])))
                        /\ pos' = pos + len[1] * size_of(T)
                        /\ UNCHANGED pc
                   ELSE \/ /\ out' = Append(out, None)
                           /\ pos' \in ShortReadPos(pos + Avail(T, pos) * size_of(T))
                           /\ UNCHANGED pc
                        \/ /\ len[1] = MaxInt
                           /\ pc' = "abort"
                           /\ UNCHANGED <<out, pos>>
       ELSE /\ out' = Append(out, None)
            /\ UNCHANGED <<dimensions, pos, pc>>
    /\ seen' = <<>>
    /\ hint' = <<>>
    /\ UNCHANGED <<T, D, usize_bits, data, error, shape0>>

\* next() of the 3-dimensional decoder that takes the row length from the
\* lowered dimensions[0] and dimensions[2], not from dimensions[1] and [2]
Next3_WrongIndex ==
    /\ pc = "ok"
    /\ D = 3
    /\ Len(out) < MaxCalls
    /\ IF dimensions[1] > 0
       THEN LET len == RowLen(dimensions[1] - 1, dimensions[3], usize_bits)
            IN  IF len = None
                THEN /\ dimensions' = [dimensions EXCEPT ![1] = @ - 1]
                     /\ out' = Append(out, None)
                     /\ UNCHANGED <<pos, pc>>
                ELSE IF len[1] <= Avail(T, pos)
                THEN /\ dimensions' = [dimensions EXCEPT ![1] = @ - 1]
                     /\ out' = Append(out, Some(ReadRow(T, pos, len[1])))
                     /\ pos' = pos + len[1] * size_of(T)
                     /\ UNCHANGED pc
                ELSE /\ dimensions' = [dimensions EXCEPT ![1] = @ - 1]
                     /\ out' = Append(out, None)
                     /\ pos' \in ShortReadPos(pos)
                     /\ UNCHANGED pc
       ELSE /\ out' = Append(out, None)
            /\ UNCHANGED <<dimensions, pos, pc>>
    /\ seen' = <<>>
    /\ hint' = <<>>
    /\ UNCHANGED <<T, D, usize_bits, data, error, shape0>>

Next3 ==
    /\ pc = "ok"
    /\ D = 3
    /\ Len(out) < MaxCalls
    /\ IF dimensions[1] > 0
       THEN /\ dimensions' = [dimensions EXCEPT ![1] = @ - 1]
            /\ LET len == RowLen(dimensions[2], dimensions[3], usize_bits)
               IN  IF len = None
                   THEN /\ out' = Append(out, None)
                        /\ UNCHANGED <<pos, pc>>
                   ELSE IF len[1] <= Avail(T, pos)
                   THEN /\ out' = Append(out, Some(ReadRow(T, pos, len[1])))
                        /\ pos' = pos + len[1] * size_of(T)
                        /\ UNCHANGED pc
                   ELSE \* the whole elements are read, the next read_self fails;
                        \* a vector of more than MaxInt items may fail to allocate
                        \/ /\ out' = Append(out, None)
                           /\ pos' \in ShortReadPos(pos + Avail(T, pos) * size_of(T))
                           /\ UNCHANGED pc
                        \/ /\ len[1] = MaxInt
                           /\ pc' = "abort"
                           /\ UNCHANGED <<out, pos>>
       ELSE /\ out' = Append(out, None)
            /\ UNCHANGED <<dimensions, pos, pc>>
    /\ seen' = <<>>
    /\ hint' = <<>>
    /\ UNCHANGED <<T, D, usize_bits, data, error, shape0>>

\* size_hint that gives dimensions[0] as the lower bound too
size_hint_Exact == <<dimensions[1], as_usize(dimensions[1], usize_bits)>>

\* Iterator::size_hint of the 3-dimensional decoder:
\* (0, self.dimensions[0].try_into().ok()), the conversion being the one of
\* as_usize
size_hint == <<0, as_usize(dimensions[1], usize_bits)>>

SizeHint ==
    /\ pc = "ok"
    /\ D = 3
    /\ hint' = size_hint
    /\ UNCHANGED <<T, D, usize_bits, data, pos, pc, error, dimensions, out, seen, shape0>>

Next == New \/ Dimensions \/ Next1 \/ Next3 \/ SizeHint

Spec == Init /\ [][Next]_vars

----------------------------------------------------------------------------
(* What the properties speak of. *)

\* the position of the first payload byte
PayloadStart == 4 + 4 * D

\* number of whole elements the payload holds
PayloadElems == (Len(data) - PayloadStart) \div size_of(T)

\* the n-th element of the payload, n = 1, 2, ...
Elem(n) == from_be_bytes(T, Buf(PayloadStart + (n - 1) * size_of(T), size_of(T)))

\* n = a * b, without computing a product that n does not bound
IsProduct(n, a, b) ==
    IF a = 0 \/ b = 0 THEN n = 0 ELSE n % a = 0 /\ n \div a = b

\* a * b * c <= n, without computing a product that n does not bound
ProductAtMost(a, b, c, n) ==
    \/ a = 0 \/ b = 0 \/ c = 0
    \/ /\ a <= n /\ b <= n /\ c <= n
       /\ a * b <= n
       /\ a * b * c <= n

\* the stream starts with the header new() accepts and holds all D sizes
WellFormedHeader == Len(data) >= PayloadStart /\ Buf(0, 4) = <<0, 0, VALUE(T), D>>

----------------------------------------------------------------------------
\* C1: a 1-dimensional decoder over a stream whose payload holds at least
\* c whole elements, c the item count of the header, returns the first c
\* payload elements in stream order from its first c calls of next(), and
\* None from the (c+1)-th call and from every call after it.
C1_ExactCount ==
    (pc = "ok" /\ D = 1 /\ PayloadElems >= shape0[1]) =>
        \A i \in 1..Len(out) :
            out[i] = IF i <= shape0[1] THEN Some(Elem(i)) ELSE None

\* a decoder of 2 items over a payload with a spare element, called 4 times
C1_Witness ==
    /\ pc = "ok" /\ D = 1
    /\ shape0[1] = 2 /\ PayloadElems > 2
    /\ Len(out) = 4
    /\ out[2] # None /\ out[3] = None /\ out[4] = None

\* C2 as stated: a 3-dimensional decoder with dimensions [c, d1, d2] over a
\* payload of at least c*d1*d2 whole elements returns, from its k-th call of
\* next() (1 <= k <= c), the payload elements (k-1)*d1*d2 + 1 .. k*d1*d2 in
\* stream order, and None from its (c+1)-th call.
C2_Original ==
    (/\ pc = "ok" /\ D = 3
     /\ ProductAtMost(shape0[1], shape0[2], shape0[3], PayloadElems)) =>
        \A k \in 1..Len(out) :
            /\ k <= shape0[1] =>
                  LET len == IF shape0[2] = 0 \/ shape0[3] = 0 THEN 0
                             ELSE shape0[2] * shape0[3]
                  IN  out[k] = Some([j \in 1..len |-> Elem((k - 1) * len + j)])
            /\ k = shape0[1] + 1 => out[k] = None

\* d1, d2 and d1 * d2 fit a usize of usize_bits bits; d1 * d2 is computed only
\* where the payload bounds it
RowLenFits ==
    \/ usize_bits >= 32
    \/ /\ shape0[2] < 65536 /\ shape0[3] < 65536
       /\ (shape0[2] = 0 \/ shape0[3] <= 65535 \div shape0[2])

\* C2, amended: the same, for the decoders whose d1, d2 and d1*d2 fit the
\* platform's usize.
C2_Rows ==
    (/\ pc = "ok" /\ D = 3
     /\ RowLenFits \/ shape0[1] = 0
     /\ ProductAtMost(shape0[1], shape0[2], shape0[3], PayloadElems)) =>
        \A k \in 1..Len(out) :
            /\ k <= shape0[1] =>
                  LET len == IF shape0[2] = 0 \/ shape0[3] = 0 THEN 0
                             ELSE shape0[2] * shape0[3]
                  IN  out[k] = Some([j \in 1..len |-> Elem((k - 1) * len + j)])
            /\ k = shape0[1] + 1 => out[k] = None

\* 2 rows of 2 x 2 elements and the call after them
C2_Witness ==
    /\ pc = "ok" /\ D = 3
    /\ shape0 = <<2, 2, 2>> /\ PayloadElems >= 8
    /\ Len(out) = 3
    /\ Len(out[1][1]) = 4 /\ Len(out[2][1]) = 4 /\ out[3] = None

\* C3: every row a call of next() of a 3-dimensional decoder returns has
\* exactly d1 * d2 elements, whatever the stream holds.
C3_RowAtomicity ==
    (pc \in {"ok", "abort"} /\ D = 3) =>
        \A k \in 1..Len(out) :
            out[k] # None => IsProduct(Len(out[k][1]), dimensions[2], dimensions[3])

\* a row of 2 x 2 elements was returned, and then a call found less than a
\* whole row left in the stream
C3_Witness ==
    /\ pc = "ok" /\ D = 3
    /\ shape0 = <<2, 2, 2>>
    /\ PayloadElems > 4 /\ PayloadElems < 8
    /\ Len(out) = 2 /\ out[1] # None /\ Len(out[1][1]) = 4 /\ out[2] = None

\* C4: over a stream that starts with the header for T and D and D
\* big-endian u32 sizes, new() succeeds; until the first call of next() the
\* shape is the D sizes in header order, the reader stands right after them,
\* and every call of dimensions() returns these sizes.
C4_ShapeExposure ==
    (pc # "start" /\ WellFormedHeader) =>
        /\ pc \in {"ok", "abort"}
        /\ error = <<>>
        /\ (pc = "ok" /\ out = <<>>) =>
              /\ dimensions = shape0
              /\ pos = PayloadStart
              /\ seen # <<>> => seen = shape0

\* dimensions() was called before the first next() on a 3-dimensional decoder
\* whose sizes differ from each other
C4_Witness ==
    /\ pc = "ok" /\ D = 3 /\ out = <<>>
    /\ shape0 = <<2, 1, 65536>>
    /\ seen = <<2, 1, 65536>>

\* C5: over a stream of at least 4 bytes whose byte 0 or byte 1 is not 0,
\* new() fails with WrongMagic, whatever the bytes after them are.
C5_HeaderRejection ==
    (pc # "start" /\ Len(data) >= 4 /\ (data[1] # 0 \/ data[2] # 0)) =>
        /\ pc = "err"
        /\ error = <<"WrongMagic">>
        /\ dimensions = <<>>

\* the magic is wrong, and so are the type tag and the dimensionality, and no
\* dimension size follows
C5_Witness ==
    /\ pc = "err" /\ error = <<"WrongMagic">>
    /\ Len(data) = 4
    /\ data[1] = 0 /\ data[2] # 0
    /\ data[3] # VALUE(T) /\ data[4] # D
\* C6: over a stream of at least 4 bytes whose bytes 0 and 1 are 0 and whose
\* byte 2 is not the tag of the declared element type, new() fails with
\* WrongType(tag of the declared type, byte 2), whatever byte 3 is.
C6_TypeMismatch ==
    (/\ pc # "start" /\ Len(data) >= 4
     /\ data[1] = 0 /\ data[2] = 0 /\ data[3] # VALUE(T)) =>
        /\ pc = "err"
        /\ error = <<"WrongType", VALUE(T), data[3]>>
        /\ dimensions = <<>>

\* U8 declared, the tag of F32 in the header, and a wrong dimensionality too
C6_Witness ==
    /\ pc = "err" /\ T = "U8"
    /\ error = <<"WrongType", 8, 13>>
    /\ data[4] # D

\* C7: over a stream of at least 4 bytes whose bytes 0 and 1 are 0, whose
\* byte 2 is the tag of the declared type and whose byte 3 is not D, new()
\* fails with WrongDimensions(D, byte 3) after it consumed exactly 4 bytes.
C7_DimensionalityMismatch ==
    (/\ pc # "start" /\ Len(data) >= 4
     /\ data[1] = 0 /\ data[2] = 0 /\ data[3] = VALUE(T) /\ data[4] # D) =>
        /\ pc = "err"
        /\ error = <<"WrongDimensions", D, data[4]>>
        /\ pos = 4
        /\ dimensions = <<>>

\* 1 dimension declared, 3 in the header, and dimension sizes behind it
C7_Witness ==
    /\ pc = "err" /\ D = 1
    /\ error = <<"WrongDimensions", 1, 3>>
    /\ Len(data) > 8 /\ pos = 4

\* C8: new() fails with IOError when the stream holds fewer than 4 bytes,
\* whatever these bytes are, and when the header is the one new() accepts but
\* fewer than 4 * D bytes follow it; no decoder is returned in either case.
C8_ShortReads ==
    (/\ pc # "start"
     /\ \/ Len(data) < 4
        \/ /\ Len(data) < 4 + 4 * D
           /\ Buf(0, 4) = <<0, 0, VALUE(T), D>>) =>
        /\ pc = "err"
        /\ error = <<"IOError">>
        /\ dimensions = <<>>

\* the header is accepted and the stream ends inside the third size
C8_Witness ==
    /\ pc = "err" /\ error = <<"IOError">>
    /\ D = 3 /\ Len(data) = 14
    /\ Buf(0, 4) = <<0, 0, VALUE(T), 3>>

\* C9: a 1-dimensional decoder whose header declares c items over a payload
\* of only k < c whole elements returns these k elements in order from its
\* first k calls of next() and None from the (k+1)-th; new() returned no
\* error and next() raises none.
C9_Truncated1D ==
    (pc = "ok" /\ D = 1 /\ PayloadElems < shape0[1]) =>
        /\ error = <<>>
        /\ \A i \in 1..Len(out) :
              /\ i <= PayloadElems => out[i] = Some(Elem(i))
              /\ i = PayloadElems + 1 => out[i] = None

\* 2 items declared, 1 whole element and a part of the next in the payload
C9_Witness ==
    /\ pc = "ok" /\ D = 1 /\ T = "I16"
    /\ shape0[1] = 2 /\ Len(data) = PayloadStart + 3
    /\ Len(out) >= 2 /\ out[1] # None /\ out[2] = None

\* the number of items the calls of next() from this state on return: the
\* items the unread stream holds whole, and at most dimensions[0] of them
ItemsLeft ==
    IF D = 1 THEN Min(dimensions[1], Avail(T, pos))
    ELSE LET len == RowLen(dimensions[2], dimensions[3], usize_bits)
         IN  IF len = None THEN 0
             ELSE IF len[1] = 0 THEN dimensions[1]
             ELSE Min(dimensions[1], Avail(T, pos) \div len[1])

\* the unread stream holds dimensions[0] whole items of a length usize holds
HoldsAllItems ==
    IF D = 1 THEN Avail(T, pos) >= dimensions[1]
    ELSE \/ dimensions[1] = 0
         \/ /\ RowLen(dimensions[2], dimensions[3], usize_bits) # None
            /\ ProductAtMost(dimensions[1], dimensions[2], dimensions[3], Avail(T, pos))

NextReturned == pc = "ok" /\ Len(out') = Len(out) + 1

\* the value the call of next() of this step returned
Returned == out'[Len(out')]

\* n <= a * b * c * d for a, b, c, d >= 0, without computing a product that n
\* does not bound
AtMostProduct(n, a, b, c, d) ==
    IF a = 0 \/ b = 0 \/ c = 0 \/ d = 0 THEN n <= 0
    ELSE \/ a > n \/ b > n \/ c > n \/ d > n
         \/ n <= a * b * c * d

\* the reader stands at or before the end of the payload the header declares:
\* count * (elements per item) * (element width) bytes after the sizes
WithinDeclared ==
    AtMostProduct(pos - PayloadStart, shape0[1],
                  IF D = 1 THEN 1 ELSE shape0[2], IF D = 1 THEN 1 ELSE shape0[3],
                  size_of(T))

\* C11: a call of next() made while dimensions[0] is 0 returns None and
\* leaves the reader where it is, and the reader never goes past the payload
\* the header declares: the bytes behind it are never consumed.
C11_NothingBeyondCount ==
    [][/\ (NextReturned /\ dimensions[1] = 0) => (Returned = None /\ pos' = pos)
       /\ pc' \in {"ok", "abort"} => WithinDeclared']_vars

\* a decoder of 1 item was called 3 times over a payload of more than 1
\* element: the reader stands behind the first element
C11_Witness ==
    /\ pc = "ok" /\ D = 1 /\ T = "I16"
    /\ shape0[1] = 1 /\ PayloadElems >= 3
    /\ Len(out) = 3 /\ out[1] # None /\ out[3] = None
    /\ pos = PayloadStart + 2

\* C12: the calls of next() that return an item are at most c, the item count
\* of the header, whatever the stream holds, and a caller that calls next()
\* c + 1 times has received None from one of these calls.
C12_BoundedByCount ==
    pc \in {"ok", "abort"} =>
        /\ Cardinality({i \in 1..Len(out) : out[i] # None}) <= shape0[1]
        /\ Len(out) >= shape0[1] + 1 =>
              \E i \in 1..(shape0[1] + 1) : out[i] = None

\* 1 row declared, more rows in the payload: the row, then None
C12_Witness ==
    /\ pc = "ok" /\ D = 3
    /\ shape0 = <<1, 1, 2>> /\ PayloadElems >= 4
    /\ Len(out) = 2 /\ out[1] # None /\ out[2] = None

\* C13: size_hint() of a 3-dimensional decoder returns the lower bound 0 and
\* the upper bound dimensions[0], absent only when dimensions[0] does not fit
\* usize; the call changes nothing of the decoder or the reader; and a call of
\* next() returns a row only while dimensions[0] is positive, lowering it by 1,
\* so that the rows still to come never exceed the upper bound.
C13_SizeHint ==
    [][/\ (pc' = "ok" /\ hint' # <<>>) =>
             /\ D = 3
             /\ hint'[1] = 0
             /\ hint'[2] = IF usize_bits >= 32 \/ dimensions'[1] < 65536
                           THEN Some(dimensions'[1]) ELSE None
       /\ (hint' # <<>> /\ hint' # hint) =>
             UNCHANGED <<dimensions, pos, out, pc, data>>
       /\ (D = 3 /\ NextReturned /\ Returned # None) =>
             /\ dimensions[1] >= 1
             /\ dimensions'[1] = dimensions[1] - 1]_vars

\* size_hint() called after the first of 2 rows was returned
C13_Witness ==
    /\ pc = "ok" /\ D = 3
    /\ shape0[1] = 2
    /\ Len(out) = 1 /\ out[1] # None
    /\ hint = <<0, <<1>>>>

\* size_hint() called where the count does not fit the 16-bit usize
C13_AbsentUpperBound ==
    /\ pc = "ok" /\ D = 3 /\ usize_bits = 16
    /\ dimensions[1] = 65536
    /\ hint = <<0, None>>

\* a step is a call of next(), whether it returned or not
NextCalled == pc = "ok" /\ (Len(out') = Len(out) + 1 \/ pc' = "abort")

\* C14: after construction dimensions[1..] keep the sizes read from the
\* header; a call of next() made while dimensions[0] > 0 lowers dimensions[0]
\* by exactly 1, whether or not it returns an item; a call made while
\* dimensions[0] = 0 changes neither the shape nor the reader's position; no
\* other operation changes the shape, and dimensions[0] never goes below 0.
C14_OnlyCountChanges ==
    [][pc = "ok" =>
          /\ \A i \in 2..D : dimensions'[i] = dimensions[i] /\ dimensions[i] = shape0[i]
          /\ dimensions'[1] >= 0
          /\ (NextCalled /\ dimensions[1] > 0) => dimensions'[1] = dimensions[1] - 1
          /\ (NextCalled /\ dimensions[1] = 0) =>
                (dimensions' = dimensions /\ pos' = pos)
          /\ ~NextCalled => dimensions' = dimensions]_vars

\* 2 items declared and none in the payload: two calls returned None and
\* lowered dimensions[0] to 0, a third left it there
C14_Witness ==
    /\ pc = "ok" /\ D = 1
    /\ shape0[1] = 2 /\ PayloadElems = 0
    /\ Len(out) = 3 /\ out[1] = None /\ out[2] = None /\ out[3] = None
    /\ dimensions = <<0>>

\* number of whole rows of d1 x d2 elements the payload holds, d1, d2 >= 1
RowsHeld ==
    IF shape0[2] > PayloadElems \/ shape0[3] > PayloadElems THEN 0
    ELSE PayloadElems \div (shape0[2] * shape0[3])

\* the k-th row of the payload, where the payload holds it
PayloadRow(k) ==
    LET len == shape0[2] * shape0[3]
    IN  [j \in 1..len |-> Elem((k - 1) * len + j)]

\* C15 as stated: over a payload of k < c whole rows of d1 * d2 >= 1 elements
\* and less than a row behind them, the first k calls of next() return the k
\* rows, the (k+1)-th call returns None, and no later call returns anything of
\* the partial row.
C15_Original ==
    (/\ pc = "ok" /\ D = 3
     /\ shape0[2] >= 1 /\ shape0[3] >= 1
     /\ RowsHeld < shape0[1]) =>
        \A i \in 1..Len(out) :
            out[i] = IF i <= RowsHeld THEN Some(PayloadRow(i)) ELSE None

\* C15, amended: the same, for the decoders whose d1, d2 and d1*d2 fit the
\* platform's usize; where they do not fit, the first call already returns
\* None, which is what the claim says only when k = 0.
C15_TruncatedRows ==
    (/\ pc = "ok" /\ D = 3
     /\ shape0[2] >= 1 /\ shape0[3] >= 1
     /\ RowsHeld < shape0[1]
     /\ RowLenFits \/ RowsHeld = 0) =>
        \A i \in 1..Len(out) :
            out[i] = IF i <= RowsHeld THEN Some(PayloadRow(i)) ELSE None

\* 2 rows of 1 x 2 declared, 1 row and 1 element in the payload: the row, then
\* None twice
C15_Witness ==
    /\ pc = "ok" /\ D = 3
    /\ shape0 = <<2, 1, 2>> /\ PayloadElems = 3
    /\ Len(out) = 3
    /\ out[1] # None /\ Len(out[1][1]) = 2
    /\ out[2] = None /\ out[3] = None

\* d1 or d2 does not fit a usize of usize_bits bits, or d1 * d2 is 2^usize_bits
\* or more, for the sizes d1, d2 of the header
RowLenOverflows ==
    LET d1 == shape0[2]
        d2 == shape0[3]
    IN  CASE usize_bits = 16 ->
                 \/ d1 >= 65536 \/ d2 >= 65536
                 \/ d1 > 0 /\ d2 > 65535 \div d1
          [] usize_bits = 32 -> d1 >= 2 /\ d2 > MaxU32Div(d1)
          [] usize_bits = 64 -> FALSE

\* C16: new() succeeds whatever the sub-dimension sizes of the header are;
\* where one of them does not fit usize or their product overflows it, every
\* call of next() returns None and the reader stays at the first payload byte:
\* no row of a wrapped length is ever read or returned.
C16_DeferredOverflow ==
    (pc # "start" /\ D = 3 /\ WellFormedHeader) =>
        /\ pc \in {"ok", "abort"}
        /\ RowLenOverflows =>
              /\ pc = "ok"
              /\ pos = PayloadStart
              /\ \A i \in 1..Len(out) : out[i] = None

\* 65536 x 65536 elements per row on a 32-bit usize, bytes in the payload,
\* two calls of next()
C16_Witness ==
    /\ pc = "ok" /\ D = 3 /\ usize_bits = 32
    /\ shape0 = <<2, 65536, 65536>>
    /\ Len(data) > PayloadStart
    /\ Len(out) = 2 /\ out[1] = None /\ out[2] = None
    /\ pos = PayloadStart

\* byte k of the n-byte big-endian bit pattern of the value v of type T, k = 1
\* being the most significant: v modulo 256^n for an integer, the stored bits
\* for a float
PatternByte(v, k, n) ==
    IF T \in {"F32", "F64"}
    THEN LET d == v.bits[(k + 1) \div 2]
         IN  IF k % 2 = 1 THEN d \div 256 ELSE d % 256
    ELSE (v \div Pow256(n - k)) % 256

\* v is a value of type T
InType(v) ==
    CASE T = "U8"  -> v \in 0..255
      [] T = "I8"  -> v \in (-128)..127
      [] T = "I16" -> v \in (-32768)..32767
      [] T = "I32" -> v \in (-MaxInt - 1)..MaxInt
      [] T \in {"F32", "F64"} ->
             /\ DOMAIN v.bits = 1..(size_of(T) \div 2)
             /\ \A j \in DOMAIN v.bits : v.bits[j] \in 0..65535

\* v is the value of type T whose big-endian bit pattern is the size_of(T)
\* bytes of the stream after position p
IsValueAt(v, p) ==
    /\ InType(v)
    /\ \A k \in 1..size_of(T) : PatternByte(v, k, size_of(T)) = data[p + k]

\* C17: a decoded element of a type of n bytes is the value whose big-endian
\* bit pattern is the n bytes consumed (two's complement for I8, I16, I32, the
\* bits of the equal-width unsigned integer for F32, F64), and exactly n bytes
\* are consumed for it; with fewer than n bytes left the decoding fails; a
\* dimension size is b0*2^24 + b1*2^16 + b2*2^8 + b3 of its four header bytes.
C17_BigEndianDecoding ==
    [][/\ (NextReturned /\ D = 1 /\ dimensions[1] > 0) =>
              IF Len(data) - pos >= size_of(T)
              THEN /\ Returned # None
                   /\ IsValueAt(Returned[1], pos)
                   /\ pos' = pos + size_of(T)
              ELSE Returned = None
       /\ (NextReturned /\ D = 3 /\ Returned # None) =>
              \A row \in {SubSeq(Returned[1], 1, Len(Returned[1]))} :
                  /\ \A j \in 1..Len(row) :
                         IsValueAt(row[j], pos + (j - 1) * size_of(T))
                  /\ pos' = pos + Len(row) * size_of(T)
       /\ (pc = "start" /\ pc' = "ok") =>
              \A i \in 1..D :
                  dimensions'[i] = data[4 * i + 1] * 16777216 + data[4 * i + 2] * 65536
                                   + data[4 * i + 3] * 256 + data[4 * i + 4]
      ]_vars

\* byte 0xFF decoded as I8 is -1, and a multi-byte element with the top bit set
\* has been decoded as well
C17_Witness ==
    /\ pc = "ok" /\ D = 1 /\ T = "I8"
    /\ Len(out) >= 2 /\ out[2] = Some(-1)
    /\ data[PayloadStart + 2] = 255
    /\ pos = PayloadStart + 2

\* C18: the iteration is fused: after a call of next() that returned None, for
\* the 1-dimensional and the 3-dimensional decoder alike, every later call
\* returns None as well, whether dimensions[0] has reached 0 or not.
C18_Fused ==
    \A i, j \in 1..Len(out) : (i < j /\ out[i] = None) => out[j] = None

\* a short read ended the rows of a 3-dimensional decoder whose row length
\* fits usize; the call after it returned None too, with dimensions[0] above 0
C18_Witness ==
    /\ pc = "ok" /\ D = 3
    /\ ~RowLenOverflows
    /\ Len(data) > PayloadStart
    /\ Len(out) = 3 /\ out[1] # None /\ out[2] = None /\ out[3] = None
    /\ dimensions[1] > 0

\* the calls of next() so far returned an empty row while the declared count
\* lasted and None right after it, and no byte of the payload has been consumed
EmptyRowsThenNone ==
    /\ pos = PayloadStart
    /\ \A k \in 1..Len(out) :
           /\ k <= shape0[1] => out[k] = Some(<<>>)
           /\ k = shape0[1] + 1 => out[k] = None

\* C19 as stated: for a 3-dimensional decoder with dimensions [c, d1, d2] where
\* d1 = 0 or d2 = 0, each of the first c calls of next() returns an empty row
\* and consumes no byte, over an empty payload too, and the (c+1)-th call
\* returns None.
C19_Original ==
    (pc = "ok" /\ D = 3 /\ (shape0[2] = 0 \/ shape0[3] = 0)) => EmptyRowsThenNone

\* C19: the same for a decoder whose two sub-dimension sizes fit the
\* platform's usize: each of the first c calls of next() returns an empty row
\* and consumes no byte, and the (c+1)-th call returns None.
C19_ZeroSizeRows ==
    (/\ pc = "ok" /\ D = 3
     /\ shape0[2] = 0 \/ shape0[3] = 0
     /\ as_usize(shape0[2], usize_bits) # None
     /\ as_usize(shape0[3], usize_bits) # None) => EmptyRowsThenNone

\* two rows of 0 x 2 elements over a payload that holds bytes: two empty rows,
\* then None, the reader still at the first payload byte
C19_Witness ==
    /\ pc = "ok" /\ D = 3
    /\ shape0 = <<2, 0, 2>>
    /\ Len(data) > PayloadStart
    /\ out = <<Some(<<>>), Some(<<>>), None>>
    /\ pos = PayloadStart
====
